---- MODULE Spec2Model ----
(***************************************************************************)
(* JSON Schema Registry (src/src/api.py, models.py, database.py).          *)
(*                                                                         *)
(* The store is the backend database: two tables, json_schemas and         *)
(* json_datasets, keyed here by the row's uuid.  A request handler is a    *)
(* sequence of database statements issued on its own session; a step of    *)
(* the model is one statement together with the local computation that     *)
(* follows it.  One service instance runs its handlers one at a time (the  *)
(* handlers are coroutines without an await); several instances sharing    *)
(* one backend interleave at statement granularity.  Spec and SpecFields   *)
(* are one instance (SpecFields with descriptions among its inputs),       *)
(* SpecConc is two instances on the same backend.  SpecEdge is one         *)
(* instance whose inputs include the empty name, a name longer than the    *)
(* name column and a document the JSONB columns cannot hold; SpecReads is  *)
(* one instance with the read handlers and requests for deleted uuids.     *)
(***************************************************************************)
EXTENDS Integers, Sequences, FiniteSets, TLC

VARIABLES schemas, datasets, nextUuid, clock, budget, pc, req, loc, resp

vars == <<schemas, datasets, nextUuid, clock, budget, pc, req, loc, resp>>

store == <<schemas, datasets>>

(***************************************************************************)
(* Bounds.                                                                 *)
(***************************************************************************)
\* number of requests one behaviour of Spec serves
MaxOps == 4
\* number of requests one behaviour of SpecConc serves
MaxConcOps == 3
\* number of requests one behaviour of SpecLive serves
MaxLiveOps == 3
\* number of requests one behaviour of SpecOrphan serves
MaxOrphanOps == 5
\* number of requests one behaviour of SpecFields serves
MaxFieldOps == 3
\* number of requests one behaviour of SpecEdge serves
MaxEdgeOps == 3
\* number of requests one behaviour of SpecReads serves
MaxReadOps == 3
\* number of requests one behaviour of SpecSearch serves
MaxSearchOps == 3

(***************************************************************************)
(* Values.                                                                 *)
(***************************************************************************)
\* Python None of an Optional[str] field
None == "None"
\* Python None of the Optional schema_uuid field (uuids are numbered from 1)
NoUuid == 0
\* a uuid string sent by a client that no row ever carries
UnknownUuid == -1

NoRow == [none |-> TRUE]
NoReq == [op |-> "none"]
NoResp == [status |-> 0, kind |-> "none", body |-> NoRow]
NoLoc == [uuid |-> NoUuid, loaded |-> NoRow, obj |-> NoRow, schema_record |-> NoRow]

\* JSON values
JNum(n) == [t |-> "number", n |-> n]
JStr(s) == [t |-> "string", s |-> s]
JBool(b) == [t |-> "boolean", b |-> b]
JArr(a) == [t |-> "array", a |-> a]
\* an object is its set of <<key, value>> members, one per key
JObj(o) == [t |-> "object", o |-> o]
JSONDecodeError == [t |-> "JSONDecodeError"]

Keys(d) == {kv[1] : kv \in d.o}
Member(d, k) == (CHOOSE kv \in d.o : kv[1] = k)[2]

\* request texts
TxtBad == "{not json"
TxtEmpty == "{}"
TxtType5 == "{\"type\": 5}"
TxtReqX == "{\"required\": [\"x\"]}"
TxtX1 == "{\"x\": 1}"
TxtX1Dup == "{\"x\": \"a\", \"x\": 1}"
TxtEmptySp == "{ }"
TxtNul == "{\"title\": \"\\u0000\"}"
TxtNested == "{\"properties\": {\"person\": {\"properties\": {\"age\": {\"type\": \"integer\"}}}}}"
TxtAge == "{\"age\": {\"type\": \"integer\"}}"
TxtAgeGroup == "{\"ageGroup\": {}}"
TxtAgeArr == "[\"age\"]"

\* the values of the last four texts
DocIntegerType == JObj({<<"type", JStr("integer")>>})
DocAge == JObj({<<"age", DocIntegerType>>})
DocNested ==
  JObj({<<"properties", JObj({<<"person", JObj({<<"properties", DocAge>>})>>})>>})
DocAgeGroup == JObj({<<"ageGroup", JObj({})>>})
DocAgeArr == JArr(<<JStr("age")>>)

\* the one-character string U+0000, which the escape in TxtNul denotes
NulChar == "<U+0000>"

\* json.loads on the request texts (a repeated key keeps its last value)
json_loads(text) ==
  CASE text = TxtEmpty -> JObj({})
    [] text = TxtType5 -> JObj({<<"type", JNum(5)>>})
    [] text = TxtReqX -> JObj({<<"required", JArr(<<JStr("x")>>)>>})
    [] text = TxtX1 -> JObj({<<"x", JNum(1)>>})
    [] text = TxtX1Dup -> JObj({<<"x", JNum(1)>>})
    [] text = TxtEmptySp -> JObj({})
    [] text = TxtNul -> JObj({<<"title", JStr(NulChar)>>})
    [] text = TxtNested -> DocNested
    [] text = TxtAge -> DocAge
    [] text = TxtAgeGroup -> DocAgeGroup
    [] text = TxtAgeArr -> DocAgeArr
    [] OTHER -> JSONDecodeError

\* json.dumps of a stored value
json_dumps_repr(d) ==
  CASE d = JObj({}) -> TxtEmpty
    [] d = JObj({<<"required", JArr(<<JStr("x")>>)>>}) -> "{'required': ['x']}"
    [] d = JObj({<<"x", JNum(1)>>}) -> "{'x': 1}"
    [] OTHER -> "None"

json_dumps(d) ==
  CASE d = JObj({}) -> TxtEmpty
    [] d = JObj({<<"type", JNum(5)>>}) -> TxtType5
    [] d = JObj({<<"required", JArr(<<JStr("x")>>)>>}) -> TxtReqX
    [] d = JObj({<<"x", JNum(1)>>}) -> TxtX1
    [] d = JObj({<<"title", JStr(NulChar)>>}) -> TxtNul
    [] d = DocNested -> TxtNested
    [] d = DocAge -> TxtAge
    [] d = DocAgeGroup -> TxtAgeGroup
    [] d = DocAgeArr -> TxtAgeArr
    [] OTHER -> "null"

SimpleTypes == {"array", "boolean", "integer", "null", "number", "object", "string"}

IsStringArray(d) ==
  /\ d.t = "array"
  /\ \A i \in 1..Len(d.a) : d.a[i].t = "string"
  /\ \A i, j \in 1..Len(d.a) : d.a[i] = d.a[j] => i = j

\* validator_for(doc).check_schema(doc): TRUE iff no exception is raised
RECURSIVE check_schema(_)
check_schema(d) ==
  \/ d.t = "boolean"
  \/ /\ d.t = "object"
     /\ \A kv \in d.o :
          CASE kv[1] = "type" ->
                 \/ kv[2].t = "string" /\ kv[2].s \in SimpleTypes
                 \/ IsStringArray(kv[2]) /\ \A i \in 1..Len(kv[2].a) : kv[2].a[i].s \in SimpleTypes
            [] kv[1] = "required" -> IsStringArray(kv[2])
            [] kv[1] = "properties" ->
                 kv[2].t = "object" /\ \A m \in kv[2].o : check_schema(m[2])
            [] OTHER -> TRUE

JsonTypeIs(inst, ty) ==
  IF ty = "integer" THEN inst.t = "number" ELSE inst.t = ty

\* does the instance satisfy the (legal) schema document
RECURSIVE Conforms(_, _)
Conforms(inst, sch) ==
  IF sch.t = "boolean" THEN sch.b
  ELSE \A kv \in sch.o :
         CASE kv[1] = "type" ->
                IF kv[2].t = "string" THEN JsonTypeIs(inst, kv[2].s)
                ELSE \E i \in 1..Len(kv[2].a) : JsonTypeIs(inst, kv[2].a[i].s)
           [] kv[1] = "required" ->
                inst.t = "object" => \A i \in 1..Len(kv[2].a) : kv[2].a[i].s \in Keys(inst)
           [] kv[1] = "properties" ->
                inst.t = "object" =>
                  \A m \in kv[2].o : m[1] \in Keys(inst) => Conforms(Member(inst, m[1]), m[2])
           [] OTHER -> TRUE

\* jsonschema.validate(instance, schema): the exception raised, or "ok"
validate(inst, sch) ==
  IF ~check_schema(sch) THEN "SchemaError"
  ELSE IF ~Conforms(inst, sch) THEN "ValidationError"
  ELSE "ok"

(***************************************************************************)
(* Tables, sessions and responses.                                         *)
(***************************************************************************)
Procs == DOMAIN pc

\* JSONSchemaDB / JSONDatasetDB rows (the key of the table is the uuid)
SchemaRow(name, description, content, created) ==
  [name |-> name, description |-> description, schema_content |-> content,
   created_at |-> created]

DatasetRow(schema_uuid, name, description, content, created) ==
  [schema_uuid |-> schema_uuid, name |-> name, description |-> description,
   dataset_content |-> content, created_at |-> created]

\* name = Column(String(255), nullable=False, unique=True): would the row
\* uuid, carrying name, break the unique index of the table
NoUniqueIndex(rows, uuid, name) == FALSE

UniqueViolation(rows, uuid, name) ==
  \E u \in DOMAIN rows \ {uuid} : rows[u].name = name

\* name = Column(String(255)): the declared length of the name columns
NameColumnLength == 255

\* the backend refuses a name longer than the column (DataError)
NameTooLong(name) == Len(name) > NameColumnLength

\* Column(JSONB): the backend refuses a document with the character U+0000
\* in a string or in a key (DataError)
RECURSIVE JsonbRejects(_)
JsonbRejects(d) ==
  CASE d.t = "string" -> d.s = NulChar
    [] d.t = "array" -> \E i \in 1..Len(d.a) : JsonbRejects(d.a[i])
    [] d.t = "object" -> \E kv \in d.o : kv[1] = NulChar \/ JsonbRejects(kv[2])
    [] OTHER -> FALSE

\* the name query as if schemas and datasets shared one table of names
QueryByName_shared(rows, name) ==
  {u \in DOMAIN schemas : schemas[u].name = name}
    \cup {u \in DOMAIN datasets : datasets[u].name = name}

\* db.query(T).filter(T.name == name).first()
QueryByName(rows, name) == {u \in DOMAIN rows : rows[u].name = name}

\* db.query(T).filter(T.name == name, T.uuid != uuid).first()
QueryOtherByName(rows, name, uuid) ==
  {u \in DOMAIN rows : rows[u].name = name /\ u # uuid}

json_schema_db_to_response(uuid, row) ==
  [schema_uuid |-> uuid, name |-> row.name, description |-> row.description,
   schema_content |-> json_dumps(row.schema_content)]

json_dataset_db_to_response(uuid, row) ==
  [dataset_uuid |-> uuid, schema_uuid |-> row.schema_uuid, name |-> row.name,
   description |-> row.description,
   dataset_content |-> json_dumps(row.dataset_content)]

\* get_db's finally: the session is closed without a commit, what the handler
\* assigned on its loaded object (l.obj) is discarded
db_close_flushes(l) ==
  IF l.obj = NoRow THEN [schemas |-> schemas, datasets |-> datasets]
  ELSE IF l.uuid \in DOMAIN schemas
    THEN [schemas |-> [schemas EXCEPT ![l.uuid] = l.obj], datasets |-> datasets]
  ELSE IF l.uuid \in DOMAIN datasets
    THEN [schemas |-> schemas, datasets |-> [datasets EXCEPT ![l.uuid] = l.obj]]
  ELSE [schemas |-> schemas, datasets |-> datasets]

db_close(l) == [schemas |-> schemas, datasets |-> datasets]

\* the columns an UPDATE writes are those whose value differs from the loaded one
MergeChanged_keeps_name(cur, l) ==
  [f \in DOMAIN cur |->
     IF f # "name" /\ l.obj[f] # l.loaded[f] THEN l.obj[f] ELSE cur[f]]

MergeChanged(cur, l) ==
  [f \in DOMAIN cur |-> IF l.obj[f] # l.loaded[f] THEN l.obj[f] ELSE cur[f]]

\* the request starts: the handler is entered with request r
Begin(p, r) ==
  /\ pc[p] = "idle"
  /\ budget > 0
  /\ budget' = budget - 1
  /\ req' = [req EXCEPT ![p] = r]

\* the handler of operation op continues at label
At(p, op, label) ==
  /\ pc[p] = label
  /\ req[p].op = op
  /\ UNCHANGED <<budget, req>>

\* raise HTTPException(status): the handler ends, the session l is closed
Raise_400(p, l, status, kind) ==
  /\ pc' = [pc EXCEPT ![p] = "idle"]
  /\ loc' = [loc EXCEPT ![p] = NoLoc]
  /\ resp' = [resp EXCEPT ![p] = [status |-> 400, kind |-> kind, body |-> NoRow]]
  /\ schemas' = db_close(l).schemas
  /\ datasets' = db_close(l).datasets
  /\ UNCHANGED <<nextUuid, clock>>

Raise(p, l, status, kind) ==
  /\ pc' = [pc EXCEPT ![p] = "idle"]
  /\ loc' = [loc EXCEPT ![p] = NoLoc]
  /\ resp' = [resp EXCEPT ![p] = [status |-> status, kind |-> kind, body |-> NoRow]]
  /\ schemas' = db_close(l).schemas
  /\ datasets' = db_close(l).datasets
  /\ UNCHANGED <<nextUuid, clock>>

\* return as if the session stayed open after the response
Return_keeps_session(p, status, body) ==
  /\ pc' = [pc EXCEPT ![p] = "idle"]
  /\ resp' = [resp EXCEPT ![p] = [status |-> status, kind |-> "ok", body |-> body]]
  /\ UNCHANGED loc

\* a handler whose statement failed in the backend is never answered
Unhandled_waits(p, kind) == UNCHANGED vars

\* an exception of the backend leaves the handler: 500, nothing is written
Unhandled(p, kind) ==
  /\ pc' = [pc EXCEPT ![p] = "idle"]
  /\ loc' = [loc EXCEPT ![p] = NoLoc]
  /\ resp' = [resp EXCEPT ![p] = [status |-> 500, kind |-> kind, body |-> NoRow]]
  /\ UNCHANGED <<schemas, datasets, nextUuid, clock>>

\* return: the handler ends with a success response
Return(p, status, body) ==
  /\ pc' = [pc EXCEPT ![p] = "idle"]
  /\ loc' = [loc EXCEPT ![p] = NoLoc]
  /\ resp' = [resp EXCEPT ![p] = [status |-> status, kind |-> "ok", body |-> body]]

\* the handler goes on to its next statement with local state l
Goto(p, label, l) ==
  /\ pc' = [pc EXCEPT ![p] = label]
  /\ loc' = [loc EXCEPT ![p] = l]
  /\ resp' = [resp EXCEPT ![p] = NoResp]

(***************************************************************************)
(* POST /schemas                                                           *)
(***************************************************************************)
\* json.loads and check_schema of a submitted schema text: the error, or "ok"
SchemaContentError_unchecked(text) ==
  IF json_loads(text) = JSONDecodeError THEN "MalformedJSON" ELSE "ok"

SchemaContentError(text) ==
  IF json_loads(text) = JSONDecodeError THEN "MalformedJSON"
  ELSE IF ~check_schema(json_loads(text)) THEN "SchemaInvalid"
  ELSE "ok"

add_schema_begin(p, r) ==
  /\ Begin(p, r)
  /\ r.op = "add_schema"
  /\ IF QueryByName(schemas, r.name) # {}
       THEN Raise(p, NoLoc, 400, "DuplicateName")
     ELSE IF SchemaContentError(r.content) # "ok"
       THEN Raise(p, NoLoc, 400, SchemaContentError(r.content))
     ELSE /\ Goto(p, "commit",
                  [NoLoc EXCEPT !.uuid = nextUuid,
                                !.obj = SchemaRow(r.name, r.description,
                                                  json_loads(r.content), 0)])
          /\ nextUuid' = nextUuid + 1
          /\ UNCHANGED <<schemas, datasets, clock>>

\* db.add(db_schema); db.commit()
add_schema_commit(p) ==
  /\ At(p, "add_schema", "commit")
  /\ IF NameTooLong(loc[p].obj.name) \/ JsonbRejects(loc[p].obj.schema_content)
       THEN Unhandled(p, "DataError")
     ELSE IF UniqueViolation(schemas, loc[p].uuid, loc[p].obj.name)
       THEN Unhandled(p, "IntegrityError")
     ELSE /\ schemas' = [u \in DOMAIN schemas \cup {loc[p].uuid} |->
                           IF u = loc[p].uuid
                             THEN [loc[p].obj EXCEPT !.created_at = clock]
                             ELSE schemas[u]]
          /\ clock' = clock + 1
          /\ Goto(p, "refresh", loc[p])
          /\ UNCHANGED <<datasets, nextUuid>>

\* db.refresh(db_schema); return json_schema_db_to_response(db_schema)
schema_refresh(p, op, status) ==
  /\ At(p, op, "refresh")
  /\ IF loc[p].uuid \notin DOMAIN schemas
       THEN Unhandled(p, "InvalidRequestError")
     ELSE /\ Return(p, status,
                    json_schema_db_to_response(loc[p].uuid, schemas[loc[p].uuid]))
          /\ UNCHANGED <<schemas, datasets, nextUuid, clock>>

add_schema_refresh(p) == schema_refresh(p, "add_schema", 201)

(***************************************************************************)
(* PUT /schemas/{schema_uuid}                                              *)
(***************************************************************************)
\* lines 230-233: the fields assigned on the loaded object before the content
update_schema_assign_overwrites(row, r) ==
  [row EXCEPT !.name = IF r.name # None THEN r.name ELSE @,
              !.description = r.description]

update_schema_assign(row, r) ==
  [row EXCEPT !.name = IF r.name # None THEN r.name ELSE @,
              !.description = IF r.description # None THEN r.description ELSE @]

\* lines 230-255: assignments, then parsing and checking of the content
update_schema_apply(p, r, l) ==
  LET l1 == [l EXCEPT !.obj = update_schema_assign(l.loaded, r)]
  IN  IF r.content = None
        THEN /\ Goto(p, "commit", l1)
             /\ UNCHANGED <<schemas, datasets, nextUuid, clock>>
      ELSE IF SchemaContentError(r.content) # "ok"
        THEN Raise(p, l1, 400, SchemaContentError(r.content))
      ELSE /\ Goto(p, "commit",
                   [l1 EXCEPT !.obj.schema_content = json_loads(r.content)])
           /\ UNCHANGED <<schemas, datasets, nextUuid, clock>>

\* line 216: is the query for another schema of that name made
NameCheckNeeded(r, row) == r.name # None /\ r.name # "" /\ r.name # row.name

update_schema_begin(p, r) ==
  /\ Begin(p, r)
  /\ r.op = "update_schema"
  /\ IF r.uuid \notin DOMAIN schemas
       THEN Raise(p, NoLoc, 404, "NotFound")
     ELSE LET l == [NoLoc EXCEPT !.uuid = r.uuid, !.loaded = schemas[r.uuid],
                                 !.obj = schemas[r.uuid]]
          IN  IF NameCheckNeeded(r, schemas[r.uuid])
                THEN /\ Goto(p, "q_name", l)
                     /\ UNCHANGED <<schemas, datasets, nextUuid, clock>>
                ELSE update_schema_apply(p, r, l)

update_schema_q_name(p) ==
  /\ At(p, "update_schema", "q_name")
  /\ IF QueryOtherByName(schemas, req[p].name, req[p].uuid) # {}
       THEN Raise(p, loc[p], 400, "DuplicateName")
       ELSE update_schema_apply(p, req[p], loc[p])

\* db.commit() of a loaded object: the UPDATE of its changed columns
update_commit_rows(rows, l) ==
  [rows EXCEPT ![l.uuid] = MergeChanged(rows[l.uuid], l)]

update_schema_commit(p) ==
  /\ At(p, "update_schema", "commit")
  /\ IF loc[p].obj = loc[p].loaded
       THEN /\ Goto(p, "refresh", loc[p])
            /\ UNCHANGED <<schemas, datasets, nextUuid, clock>>
     ELSE IF /\ loc[p].obj.schema_content # loc[p].loaded.schema_content
             /\ JsonbRejects(loc[p].obj.schema_content)
       THEN Unhandled(p, "DataError")
     ELSE IF loc[p].uuid \notin DOMAIN schemas
       THEN Unhandled(p, "StaleDataError")
     ELSE IF loc[p].obj.name # loc[p].loaded.name /\ NameTooLong(loc[p].obj.name)
       THEN Unhandled(p, "DataError")
     ELSE IF /\ loc[p].obj.name # loc[p].loaded.name
             /\ UniqueViolation(schemas, loc[p].uuid, loc[p].obj.name)
       THEN Unhandled(p, "IntegrityError")
     ELSE /\ schemas' = update_commit_rows(schemas, loc[p])
          /\ Goto(p, "refresh", loc[p])
          /\ UNCHANGED <<datasets, nextUuid, clock>>

update_schema_refresh(p) == schema_refresh(p, "update_schema", 200)

(***************************************************************************)
(* DELETE /schemas/{schema_uuid}                                           *)
(***************************************************************************)
remove_schema_begin(p, r) ==
  /\ Begin(p, r)
  /\ r.op = "remove_schema"
  /\ IF r.uuid \notin DOMAIN schemas
       THEN Raise(p, NoLoc, 404, "NotFound")
       ELSE /\ Goto(p, "commit", [NoLoc EXCEPT !.uuid = r.uuid,
                                               !.loaded = schemas[r.uuid],
                                               !.obj = schemas[r.uuid]])
            /\ UNCHANGED <<schemas, datasets, nextUuid, clock>>

\* db.delete(row); db.commit(): a DELETE that matches no row only warns
delete_commit_rows_keeps(rows, uuid) == rows

delete_commit_rows(rows, uuid) ==
  [u \in DOMAIN rows \ {uuid} |-> rows[u]]

\* json_datasets.schema_uuid is a plain column, no ForeignKey and no
\* relationship: the datasets after the DELETE of the schema uuid
DatasetsAfterSchemaDelete_cascade(rows, uuid) ==
  [u \in {v \in DOMAIN rows : rows[v].schema_uuid # uuid} |-> rows[u]]

DatasetsAfterSchemaDelete(rows, uuid) == rows

remove_schema_commit(p) ==
  /\ At(p, "remove_schema", "commit")
  /\ schemas' = delete_commit_rows(schemas, loc[p].uuid)
  /\ datasets' = DatasetsAfterSchemaDelete(datasets, loc[p].uuid)
  /\ Return(p, 200, [message |-> "Schema deleted successfully"])
  /\ UNCHANGED <<nextUuid, clock>>

\* db.query(JSONSchemaDB).filter(JSONSchemaDB.schema_uuid == uuid).first()
SchemaRecord(uuid) ==
  [schema_uuid |-> uuid, name |-> schemas[uuid].name,
   description |-> schemas[uuid].description,
   schema_content |-> schemas[uuid].schema_content,
   created_at |-> schemas[uuid].created_at]

(***************************************************************************)
(* POST /datasets                                                          *)
(***************************************************************************)
\* json.loads of a submitted dataset text and validate against the schema
\* record that was read: the error, or "ok"
DatasetContentError_unvalidated(text, schema_record) ==
  IF json_loads(text) = JSONDecodeError THEN "MalformedJSON" ELSE "ok"

DatasetContentError(text, schema_record) ==
  IF json_loads(text) = JSONDecodeError THEN "MalformedJSON"
  ELSE IF validate(json_loads(text), schema_record.schema_content) = "ValidationError"
    THEN "ValidationFailed"
  ELSE IF validate(json_loads(text), schema_record.schema_content) # "ok"
    THEN "SchemaError"
  ELSE "ok"

add_dataset_begin(p, r) ==
  /\ Begin(p, r)
  /\ r.op = "add_dataset"
  /\ IF QueryByName(datasets, r.name) # {}
       THEN Raise(p, NoLoc, 400, "DuplicateName")
       ELSE /\ Goto(p, "q_schema", NoLoc)
            /\ UNCHANGED <<schemas, datasets, nextUuid, clock>>

\* lines 402-431: the schema query, json.loads and validate, in that order:
\* the first error, or "ok"
add_dataset_checks_parse_first(r) ==
  IF json_loads(r.content) = JSONDecodeError THEN "MalformedJSON"
  ELSE IF r.schema_uuid \notin DOMAIN schemas THEN "SchemaNotFound"
  ELSE DatasetContentError(r.content, SchemaRecord(r.schema_uuid))

add_dataset_checks(r) ==
  IF r.schema_uuid \notin DOMAIN schemas THEN "SchemaNotFound"
  ELSE DatasetContentError(r.content, SchemaRecord(r.schema_uuid))

add_dataset_q_schema(p) ==
  /\ At(p, "add_dataset", "q_schema")
  /\ IF add_dataset_checks(req[p]) = "SchemaNotFound"
       THEN Raise(p, loc[p], 404, "SchemaNotFound")
     ELSE IF add_dataset_checks(req[p]) # "ok"
       THEN Raise(p, loc[p], 400, add_dataset_checks(req[p]))
     ELSE /\ Goto(p, "commit",
                  [NoLoc EXCEPT !.uuid = nextUuid,
                                !.schema_record = SchemaRecord(req[p].schema_uuid),
                                !.obj = DatasetRow(req[p].schema_uuid, req[p].name,
                                                   req[p].description,
                                                   json_loads(req[p].content), 0)])
          /\ nextUuid' = nextUuid + 1
          /\ UNCHANGED <<schemas, datasets, clock>>

add_dataset_commit(p) ==
  /\ At(p, "add_dataset", "commit")
  /\ IF NameTooLong(loc[p].obj.name) \/ JsonbRejects(loc[p].obj.dataset_content)
       THEN Unhandled(p, "DataError")
     ELSE IF UniqueViolation(datasets, loc[p].uuid, loc[p].obj.name)
       THEN Unhandled(p, "IntegrityError")
     ELSE /\ datasets' = [u \in DOMAIN datasets \cup {loc[p].uuid} |->
                            IF u = loc[p].uuid
                              THEN [loc[p].obj EXCEPT !.created_at = clock]
                              ELSE datasets[u]]
          /\ clock' = clock + 1
          /\ Goto(p, "refresh", loc[p])
          /\ UNCHANGED <<schemas, nextUuid>>

\* db.refresh(db_dataset); return json_dataset_db_to_response(db_dataset)
dataset_refresh(p, op, status) ==
  /\ At(p, op, "refresh")
  /\ IF loc[p].uuid \notin DOMAIN datasets
       THEN Unhandled(p, "InvalidRequestError")
     ELSE /\ Return(p, status,
                    json_dataset_db_to_response(loc[p].uuid, datasets[loc[p].uuid]))
          /\ UNCHANGED <<schemas, datasets, nextUuid, clock>>

add_dataset_refresh(p) == dataset_refresh(p, "add_dataset", 201)

(***************************************************************************)
(* PUT /datasets/{dataset_uuid}                                            *)
(***************************************************************************)
\* lines 517-522: the fields assigned on the loaded object before the content
update_dataset_assign_unguarded(row, r) ==
  [row EXCEPT !.name = IF r.name # None THEN r.name ELSE @,
              !.description = IF r.description # None THEN r.description ELSE @,
              !.schema_uuid = r.schema_uuid]

update_dataset_assign(row, r) ==
  [row EXCEPT !.name = IF r.name # None THEN r.name ELSE @,
              !.description = IF r.description # None THEN r.description ELSE @,
              !.schema_uuid = IF r.schema_uuid # NoUuid THEN r.schema_uuid ELSE @]

\* line 533: the schema the supplied content is validated against
ValidationSchemaUuid_stored(l) == l.loaded.schema_uuid

ValidationSchemaUuid(l) == l.obj.schema_uuid

\* line 523: is the content parsed and validated
ContentOrSchemaSupplied(r) == r.content # None \/ r.schema_uuid # NoUuid

\* line 523 as if every update parsed and validated content
ContentSupplied_always(r) == TRUE

ContentSupplied(r) == r.content # None

\* lines 517-529: assignments, then parsing of the content
update_dataset_apply(p, r, l) ==
  LET l1 == [l EXCEPT !.obj = update_dataset_assign(l.loaded, r)]
  IN  IF ~ContentSupplied(r)
        THEN /\ Goto(p, "commit", l1)
             /\ UNCHANGED <<schemas, datasets, nextUuid, clock>>
      ELSE IF json_loads(r.content) = JSONDecodeError
        THEN Raise(p, l1, 400, "MalformedJSON")
      ELSE /\ Goto(p, "q_schema", l1)
           /\ UNCHANGED <<schemas, datasets, nextUuid, clock>>

update_dataset_begin(p, r) ==
  /\ Begin(p, r)
  /\ r.op = "update_dataset"
  /\ IF r.uuid \notin DOMAIN datasets
       THEN Raise(p, NoLoc, 404, "NotFound")
     ELSE LET l == [NoLoc EXCEPT !.uuid = r.uuid, !.loaded = datasets[r.uuid],
                                 !.obj = datasets[r.uuid]]
          IN  IF NameCheckNeeded(r, datasets[r.uuid])
                THEN /\ Goto(p, "q_name", l)
                     /\ UNCHANGED <<schemas, datasets, nextUuid, clock>>
                ELSE update_dataset_apply(p, r, l)

update_dataset_q_name(p) ==
  /\ At(p, "update_dataset", "q_name")
  /\ IF QueryOtherByName(datasets, req[p].name, req[p].uuid) # {}
       THEN Raise(p, loc[p], 400, "DuplicateName")
       ELSE update_dataset_apply(p, req[p], loc[p])

\* lines 531-555
update_dataset_q_schema(p) ==
  /\ At(p, "update_dataset", "q_schema")
  /\ LET s == ValidationSchemaUuid(loc[p])
     IN  IF s \notin DOMAIN schemas
           THEN Raise(p, loc[p], 404, "SchemaNotFound")
         ELSE IF DatasetContentError(req[p].content, SchemaRecord(s)) # "ok"
           THEN Raise(p, loc[p], 400, DatasetContentError(req[p].content, SchemaRecord(s)))
         ELSE /\ Goto(p, "commit",
                      [loc[p] EXCEPT !.schema_record = SchemaRecord(s),
                                     !.obj.dataset_content = json_loads(req[p].content)])
              /\ UNCHANGED <<schemas, datasets, nextUuid, clock>>

update_dataset_commit(p) ==
  /\ At(p, "update_dataset", "commit")
  /\ IF loc[p].obj = loc[p].loaded
       THEN /\ Goto(p, "refresh", loc[p])
            /\ UNCHANGED <<schemas, datasets, nextUuid, clock>>
     ELSE IF /\ loc[p].obj.dataset_content # loc[p].loaded.dataset_content
             /\ JsonbRejects(loc[p].obj.dataset_content)
       THEN Unhandled(p, "DataError")
     ELSE IF loc[p].uuid \notin DOMAIN datasets
       THEN Unhandled(p, "StaleDataError")
     ELSE IF loc[p].obj.name # loc[p].loaded.name /\ NameTooLong(loc[p].obj.name)
       THEN Unhandled(p, "DataError")
     ELSE IF /\ loc[p].obj.name # loc[p].loaded.name
             /\ UniqueViolation(datasets, loc[p].uuid, loc[p].obj.name)
       THEN Unhandled(p, "IntegrityError")
     ELSE /\ datasets' = update_commit_rows(datasets, loc[p])
          /\ Goto(p, "refresh", loc[p])
          /\ UNCHANGED <<schemas, nextUuid, clock>>

update_dataset_refresh(p) == dataset_refresh(p, "update_dataset", 200)

(***************************************************************************)
(* DELETE /datasets/{dataset_uuid}                                         *)
(***************************************************************************)
remove_dataset_begin(p, r) ==
  /\ Begin(p, r)
  /\ r.op = "remove_dataset"
  /\ IF r.uuid \notin DOMAIN datasets
       THEN Raise(p, NoLoc, 404, "NotFound")
       ELSE /\ Goto(p, "commit", [NoLoc EXCEPT !.uuid = r.uuid,
                                               !.loaded = datasets[r.uuid],
                                               !.obj = datasets[r.uuid]])
            /\ UNCHANGED <<schemas, datasets, nextUuid, clock>>

remove_dataset_commit(p) ==
  /\ At(p, "remove_dataset", "commit")
  /\ datasets' = delete_commit_rows(datasets, loc[p].uuid)
  /\ Return(p, 200, [message |-> "Dataset deleted successfully"])
  /\ UNCHANGED <<schemas, nextUuid, clock>>

(***************************************************************************)
(* GET /schemas/{schema_uuid}, /schemas/name/{schema_name},                *)
(* /datasets/{dataset_uuid}, /datasets/name/{dataset_name}                 *)
(***************************************************************************)
get_schema_by_uuid(p, r) ==
  /\ Begin(p, r)
  /\ r.op = "get_schema_by_uuid"
  /\ IF r.uuid \notin DOMAIN schemas
       THEN Raise(p, NoLoc, 404, "NotFound")
       ELSE /\ Return(p, 200, json_schema_db_to_response(r.uuid, schemas[r.uuid]))
            /\ UNCHANGED <<schemas, datasets, nextUuid, clock>>

get_schema_by_name(p, r) ==
  /\ Begin(p, r)
  /\ r.op = "get_schema_by_name"
  /\ IF QueryByName(schemas, r.name) = {}
       THEN Raise(p, NoLoc, 404, "NotFound")
       ELSE /\ \E u \in QueryByName(schemas, r.name) :
                 Return(p, 200, json_schema_db_to_response(u, schemas[u]))
            /\ UNCHANGED <<schemas, datasets, nextUuid, clock>>

get_dataset_by_uuid(p, r) ==
  /\ Begin(p, r)
  /\ r.op = "get_dataset_by_uuid"
  /\ IF r.uuid \notin DOMAIN datasets
       THEN Raise(p, NoLoc, 404, "NotFound")
       ELSE /\ Return(p, 200, json_dataset_db_to_response(r.uuid, datasets[r.uuid]))
            /\ UNCHANGED <<schemas, datasets, nextUuid, clock>>

get_dataset_by_name(p, r) ==
  /\ Begin(p, r)
  /\ r.op = "get_dataset_by_name"
  /\ IF QueryByName(datasets, r.name) = {}
       THEN Raise(p, NoLoc, 404, "NotFound")
       ELSE /\ \E u \in QueryByName(datasets, r.name) :
                 Return(p, 200, json_dataset_db_to_response(u, datasets[u]))
            /\ UNCHANGED <<schemas, datasets, nextUuid, clock>>

(***************************************************************************)
(* GET /schemas/search, /schemas/search/key, /datasets/search,             *)
(* /datasets/search/key                                                    *)
(***************************************************************************)
Char(str, i) == SubSeq(str, i, i)

UpperCase == "ABCDEFGHIJKLMNOPQRSTUVWXYZ"
LowerCase == "abcdefghijklmnopqrstuvwxyz"

\* the character folded to lower case, as the case-insensitive operators do
lower(c) ==
  IF \E i \in 1..Len(UpperCase) : Char(UpperCase, i) = c
    THEN Char(LowerCase, CHOOSE i \in 1..Len(UpperCase) : Char(UpperCase, i) = c)
    ELSE c

\* str ILIKE pat, from position j of str and i of pat: % is any run of
\* characters, _ is any one character (no request of the model has the
\* escape character)
RECURSIVE LikeFrom(_, _, _, _)
LikeFrom(pat, i, str, j) ==
  IF i > Len(pat) THEN j > Len(str)
  ELSE IF Char(pat, i) = "%"
    THEN \E k \in j..(Len(str) + 1) : LikeFrom(pat, i + 1, str, k)
  ELSE IF Char(pat, i) = "_"
    THEN j <= Len(str) /\ LikeFrom(pat, i + 1, str, j + 1)
  ELSE /\ j <= Len(str)
       /\ lower(Char(pat, i)) = lower(Char(str, j))
       /\ LikeFrom(pat, i + 1, str, j + 1)

\* column.ilike(pat); a NULL column matches nothing
ilike(str, pat) == str # None /\ LikeFrom(pat, 1, str, 1)

\* str ~* re: does the regular expression match somewhere in str, without
\* regard to case: . is any one character (no request of the model has
\* another metacharacter)
RegexMatchAt(re, str, j) ==
  /\ j + Len(re) - 1 <= Len(str)
  /\ \A i \in 1..Len(re) :
       Char(re, i) = "." \/ lower(Char(re, i)) = lower(Char(str, j + i - 1))

regex_imatch(str, re) == \E j \in 1..(Len(str) + 1) : RegexMatchAt(re, str, j)

\* cast(content, String): the text of a jsonb value; for the documents of
\* the model, which have one member per object, it is the text json.dumps
\* gives
jsonb_text(d) == json_dumps(d)

\* content ? key: the string is a key of the object, an element of the
\* array, or the string value itself
jsonb_exists(d, key) ==
  CASE d.t = "object" -> key \in Keys(d)
    [] d.t = "array" -> \E i \in 1..Len(d.a) : d.a[i] = JStr(key)
    [] d.t = "string" -> d.s = key
    [] OTHER -> FALSE

\* the recursive query json_keys: the keys of the content when it is an
\* object, and of the objects reached through object members
RECURSIVE json_keys(_)
json_keys(d) ==
  IF d.t # "object" THEN {}
  ELSE Keys(d) \cup UNION {json_keys(kv[2]) : kv \in d.o}

\* the rows the key search selects
KeySearchRows(rows, content, q) ==
  {u \in DOMAIN rows :
     \/ jsonb_exists(rows[u][content], q)
     \/ \E k \in json_keys(rows[u][content]) : ilike(k, "%" \o q \o "%")}

\* the rows the text search selects
TextSearchRows(rows, content, q) ==
  {u \in DOMAIN rows :
     \/ ilike(rows[u].name, "%" \o q \o "%")
     \/ ilike(rows[u].description, "%" \o q \o "%")
     \/ regex_imatch(jsonb_text(rows[u][content]), q)}

\* ORDER BY created_at DESC of the selected rows
OrderByCreatedDesc(rows, sel) ==
  CHOOSE seq \in [1..Cardinality(sel) -> sel] :
    /\ \A i, j \in 1..Cardinality(sel) : seq[i] = seq[j] => i = j
    /\ \A i, j \in 1..Cardinality(sel) :
         i < j => rows[seq[i]].created_at >= rows[seq[j]].created_at

search_schemas_by_key(p, r) ==
  /\ Begin(p, r)
  /\ r.op = "search_schemas_by_key"
  /\ LET seq == OrderByCreatedDesc(schemas, KeySearchRows(schemas, "schema_content", r.q))
     IN  Return(p, 200, [i \in DOMAIN seq |->
                           json_schema_db_to_response(seq[i], schemas[seq[i]])])
  /\ UNCHANGED <<schemas, datasets, nextUuid, clock>>

search_datasets_by_key(p, r) ==
  /\ Begin(p, r)
  /\ r.op = "search_datasets_by_key"
  /\ LET seq == OrderByCreatedDesc(datasets, KeySearchRows(datasets, "dataset_content", r.q))
     IN  Return(p, 200, [i \in DOMAIN seq |->
                           json_dataset_db_to_response(seq[i], datasets[seq[i]])])
  /\ UNCHANGED <<schemas, datasets, nextUuid, clock>>

\* the text searches have no ORDER BY: the rows come in any order
search_schemas(p, r) ==
  /\ Begin(p, r)
  /\ r.op = "search_schemas"
  /\ LET sel == TextSearchRows(schemas, "schema_content", r.q)
     IN  \E seq \in [1..Cardinality(sel) -> sel] :
           /\ \A i, j \in DOMAIN seq : seq[i] = seq[j] => i = j
           /\ Return(p, 200, [i \in DOMAIN seq |->
                                json_schema_db_to_response(seq[i], schemas[seq[i]])])
  /\ UNCHANGED <<schemas, datasets, nextUuid, clock>>

search_datasets(p, r) ==
  /\ Begin(p, r)
  /\ r.op = "search_datasets"
  /\ LET sel == TextSearchRows(datasets, "dataset_content", r.q)
     IN  \E seq \in [1..Cardinality(sel) -> sel] :
           /\ \A i, j \in DOMAIN seq : seq[i] = seq[j] => i = j
           /\ Return(p, 200, [i \in DOMAIN seq |->
                                json_dataset_db_to_response(seq[i], datasets[seq[i]])])
  /\ UNCHANGED <<schemas, datasets, nextUuid, clock>>

(***************************************************************************)
(* Requests.                                                               *)
(***************************************************************************)
Request(op, uuid, name, description, schema_uuid, content) ==
  [op |-> op, uuid |-> uuid, name |-> name, description |-> description,
   schema_uuid |-> schema_uuid, content |-> content]

\* the uuids a client can send: those of the rows of a table, and one that
\* no row carries
SentUuids(rows) == DOMAIN rows \cup {UnknownUuid}

SchemaCreates(in) ==
  {Request("add_schema", NoUuid, n, d, NoUuid, t) :
     n \in in.names, d \in in.create_descs \cup {None}, t \in in.schema_texts}

SchemaUpdates(in) ==
  {Request("update_schema", u, n, d, NoUuid, t) :
     u \in DOMAIN schemas, n \in in.names \cup {None},
     d \in in.update_descs \cup {None}, t \in in.schema_texts \cup {None}}
  \cup {Request("update_schema", UnknownUuid, None, None, NoUuid, None)}

DatasetCreates(in) ==
  {Request("add_dataset", NoUuid, n, d, s, t) :
     n \in in.names, d \in in.create_descs \cup {None}, s \in SentUuids(schemas),
     t \in in.dataset_texts}

DatasetUpdates(in) ==
  {Request("update_dataset", u, n, d, s, t) :
     u \in DOMAIN datasets, n \in in.names \cup {None},
     d \in in.update_descs \cup {None}, s \in SentUuids(schemas) \cup {NoUuid},
     t \in in.dataset_texts \cup {None}}
  \cup {Request("update_dataset", UnknownUuid, None, None, NoUuid, None)}

SchemaDeletes == {Request("remove_schema", u, None, None, NoUuid, None) :
                    u \in SentUuids(schemas)}

DatasetDeletes == {Request("remove_dataset", u, None, None, NoUuid, None) :
                     u \in SentUuids(datasets)}

\* the uuids the service has issued so far, live or deleted
IssuedUuids == 1..(nextUuid - 1)

\* deletes of a uuid whose row is gone
SchemaDeletesAgain == {Request("remove_schema", u, None, None, NoUuid, None) :
                         u \in IssuedUuids \ DOMAIN schemas}

DatasetDeletesAgain == {Request("remove_dataset", u, None, None, NoUuid, None) :
                          u \in IssuedUuids \ DOMAIN datasets}

ReadsByUuid(op) == {Request(op, u, None, None, NoUuid, None) :
                      u \in IssuedUuids \cup {UnknownUuid}}

ReadsByName(op, in) == {Request(op, NoUuid, n, None, NoUuid, None) : n \in in.names}

SearchRequest(op, q) ==
  [op |-> op, uuid |-> NoUuid, name |-> None, description |-> None,
   schema_uuid |-> NoUuid, content |-> None, q |-> q]

\* the query strings of the search requests
Queries == {"age", "AGE", "a_e", "_", ".", "x"}

Searches(op) == {SearchRequest(op, q) : q \in Queries}

\* a name of 256 characters
LongName == "nnnnnnnnnnnnnnnnnnnnnnnnnnnnnnnnnnnnnnnnnnnnnnnnnnnnnnnnnnnnnnnnnnnnnnnnnnnnnnnnnnnnnnnnnnnnnnnnnnnnnnnnnnnnnnnnnnnnnnnnnnnnnnnnnnnnnnnnnnnnnnnnnnnnnnnnnnnnnnnnnnnnnnnnnnnnnnnnnnnnnnnnnnnnnnnnnnnnnnnnnnnnnnnnnnnnnnnnnnnnnnnnnnnnnnnnnnnnnnnnnnnnnnnnnnnnnnnn"

\* inputs of Spec
Inputs ==
  [names |-> {"a", "b"}, create_descs |-> {}, update_descs |-> {},
   schema_texts |-> {TxtBad, TxtType5, TxtEmpty, TxtReqX},
   dataset_texts |-> {TxtBad, TxtEmpty, TxtX1}]

\* inputs of SpecFields
FieldInputs ==
  [names |-> {"a", "b"}, create_descs |-> {}, update_descs |-> {"d"},
   schema_texts |-> {TxtBad, TxtType5, TxtEmpty, TxtReqX},
   dataset_texts |-> {TxtBad, TxtEmpty, TxtX1}]

\* inputs of SpecConc
ConcInputs ==
  [names |-> {"a", "b"}, create_descs |-> {}, update_descs |-> {},
   schema_texts |-> {TxtEmpty, TxtReqX},
   dataset_texts |-> {TxtEmpty}]

\* inputs of SpecLive
LiveInputs ==
  [names |-> {"a", "b"}, create_descs |-> {}, update_descs |-> {},
   schema_texts |-> {TxtBad, TxtEmpty},
   dataset_texts |-> {TxtEmpty}]

\* inputs of SpecOrphan
OrphanInputs ==
  [names |-> {"a", "b"}, create_descs |-> {}, update_descs |-> {},
   schema_texts |-> {TxtEmpty},
   dataset_texts |-> {TxtBad, TxtEmpty}]

\* inputs of SpecEdge
EdgeInputs ==
  [names |-> {"", "a", LongName}, create_descs |-> {}, update_descs |-> {},
   schema_texts |-> {TxtBad, TxtType5, TxtEmpty, TxtReqX, TxtNul},
   dataset_texts |-> {TxtEmpty, TxtNul}]

\* inputs of SpecReads
ReadInputs ==
  [names |-> {"a", "b"}, create_descs |-> {"d"}, update_descs |-> {},
   schema_texts |-> {TxtBad, TxtType5, TxtEmptySp, TxtReqX},
   dataset_texts |-> {TxtBad, TxtEmpty, TxtX1}]

\* inputs of SpecSearch
SearchInputs ==
  [names |-> {"ab", "Age"}, create_descs |-> {}, update_descs |-> {},
   schema_texts |-> {TxtNested, TxtAge, TxtAgeGroup, TxtX1},
   dataset_texts |-> {TxtAgeArr, TxtEmpty, TxtAge}]

(***************************************************************************)
(* Specifications.                                                         *)
(***************************************************************************)
InitStore ==
  /\ schemas = <<>>
  /\ datasets = <<>>
  /\ nextUuid = 1
  /\ clock = 1

InitProcs(procs) ==
  /\ pc = [p \in procs |-> "idle"]
  /\ req = [p \in procs |-> NoReq]
  /\ loc = [p \in procs |-> NoLoc]
  /\ resp = [p \in procs |-> NoResp]

Init == InitStore /\ InitProcs({1}) /\ budget = MaxOps

InitConc == InitStore /\ InitProcs({1, 2}) /\ budget = MaxConcOps

InitFields == InitStore /\ InitProcs({1}) /\ budget = MaxFieldOps

InitEdge == InitStore /\ InitProcs({1}) /\ budget = MaxEdgeOps

InitReads == InitStore /\ InitProcs({1}) /\ budget = MaxReadOps

InitOrphan == InitStore /\ InitProcs({1}) /\ budget = MaxOrphanOps

InitSearch == InitStore /\ InitProcs({1}) /\ budget = MaxSearchOps

Handlers(in) ==
  \/ \E p \in Procs : \E r \in SchemaCreates(in) : add_schema_begin(p, r)
  \/ \E p \in Procs : add_schema_commit(p)
  \/ \E p \in Procs : add_schema_refresh(p)
  \/ \E p \in Procs : \E r \in SchemaUpdates(in) : update_schema_begin(p, r)
  \/ \E p \in Procs : update_schema_q_name(p)
  \/ \E p \in Procs : update_schema_commit(p)
  \/ \E p \in Procs : update_schema_refresh(p)
  \/ \E p \in Procs : \E r \in SchemaDeletes : remove_schema_begin(p, r)
  \/ \E p \in Procs : remove_schema_commit(p)
  \/ \E p \in Procs : \E r \in DatasetCreates(in) : add_dataset_begin(p, r)
  \/ \E p \in Procs : add_dataset_q_schema(p)
  \/ \E p \in Procs : add_dataset_commit(p)
  \/ \E p \in Procs : add_dataset_refresh(p)
  \/ \E p \in Procs : \E r \in DatasetUpdates(in) : update_dataset_begin(p, r)
  \/ \E p \in Procs : update_dataset_q_name(p)
  \/ \E p \in Procs : update_dataset_q_schema(p)
  \/ \E p \in Procs : update_dataset_commit(p)
  \/ \E p \in Procs : update_dataset_refresh(p)
  \/ \E p \in Procs : \E r \in DatasetDeletes : remove_dataset_begin(p, r)
  \/ \E p \in Procs : remove_dataset_commit(p)

Next == Handlers(Inputs)

NextConc == Handlers(ConcInputs)

NextFields == Handlers(FieldInputs)

NextEdge == Handlers(EdgeInputs)

NextOrphan == Handlers(OrphanInputs)

ReadHandlers(in) ==
  \/ \E p \in Procs : \E r \in ReadsByUuid("get_schema_by_uuid") : get_schema_by_uuid(p, r)
  \/ \E p \in Procs : \E r \in ReadsByName("get_schema_by_name", in) : get_schema_by_name(p, r)
  \/ \E p \in Procs : \E r \in ReadsByUuid("get_dataset_by_uuid") : get_dataset_by_uuid(p, r)
  \/ \E p \in Procs : \E r \in ReadsByName("get_dataset_by_name", in) : get_dataset_by_name(p, r)
  \/ \E p \in Procs : \E r \in SchemaDeletesAgain : remove_schema_begin(p, r)
  \/ \E p \in Procs : \E r \in DatasetDeletesAgain : remove_dataset_begin(p, r)

NextReads == Handlers(ReadInputs) \/ ReadHandlers(ReadInputs)

Spec == Init /\ [][Next]_vars

SpecConc == InitConc /\ [][NextConc]_vars

SpecFields == InitFields /\ [][NextFields]_vars

\* the statements after the entry of a handler: what instance p does next
\* once its request is in flight
Continue(p) ==
  \/ add_schema_commit(p)
  \/ add_schema_refresh(p)
  \/ update_schema_q_name(p)
  \/ update_schema_commit(p)
  \/ update_schema_refresh(p)
  \/ remove_schema_commit(p)
  \/ add_dataset_q_schema(p)
  \/ add_dataset_commit(p)
  \/ add_dataset_refresh(p)
  \/ update_dataset_q_name(p)
  \/ update_dataset_q_schema(p)
  \/ update_dataset_commit(p)
  \/ update_dataset_refresh(p)
  \/ remove_dataset_commit(p)

\* the two instances of SpecConc
ConcProcs == {1, 2}

\* a handler has no await: the event loop of its instance runs it to its
\* response, and the backend answers every statement
HandlersRun == \A p \in ConcProcs : WF_vars(Continue(p))

InitLive == InitStore /\ InitProcs(ConcProcs) /\ budget = MaxLiveOps

NextLive == Handlers(LiveInputs)

\* two instances on one database, every handler in flight is run on
SpecLive == InitLive /\ [][NextLive]_vars /\ HandlersRun

SpecEdge == InitEdge /\ [][NextEdge]_vars

SpecOrphan == InitOrphan /\ [][NextOrphan]_vars

SpecReads == InitReads /\ [][NextReads]_vars

SearchHandlers ==
  \/ \E p \in Procs : \E r \in Searches("search_schemas") : search_schemas(p, r)
  \/ \E p \in Procs : \E r \in Searches("search_schemas_by_key") : search_schemas_by_key(p, r)
  \/ \E p \in Procs : \E r \in Searches("search_datasets") : search_datasets(p, r)
  \/ \E p \in Procs : \E r \in Searches("search_datasets_by_key") : search_datasets_by_key(p, r)

NextSearch == Handlers(SearchInputs) \/ SearchHandlers

SpecSearch == InitSearch /\ [][NextSearch]_vars

TypeOK ==
  /\ \A u \in DOMAIN schemas : u \in 1..(nextUuid - 1)
  /\ \A u \in DOMAIN datasets : u \in 1..(nextUuid - 1)
  /\ DOMAIN schemas \cap DOMAIN datasets = {}
  /\ budget >= 0

(***************************************************************************)
(* Properties.                                                             *)
(***************************************************************************)
\* the step ends a request of p (also one that is refused by its first statement)
Finishes(p) == pc'[p] = "idle" /\ (pc[p] # "idle" \/ budget' # budget)

\* the step is the commit of p's handler and the commit went through
Commits(p) == pc[p] = "commit" /\ pc'[p] = "refresh"

NameWriters == {"add_schema", "update_schema", "add_dataset", "update_dataset"}

\* the step of p commits a dataset row whose content the request supplied
CommitsContent(p) ==
  /\ Commits(p)
  /\ \/ req[p].op = "add_dataset"
     \/ req[p].op = "update_dataset" /\ req[p].content # None

UniqueNames(rows) ==
  \A u, v \in DOMAIN rows : rows[u].name = rows[v].name => u = v

\* C1: in every reachable state, under any interleaving of the create, update
\* and delete handlers of two instances, no two schemas have the same name and
\* no two datasets have the same name.
C1_UniqueNames == UniqueNames(schemas) /\ UniqueNames(datasets)

\* two creates of the same name were both past the name query; the unique
\* index let one through and refused the other
C1_Witness ==
  \E p, q \in Procs :
    /\ req[p].op = "add_schema" /\ req[q].op = "add_schema"
    /\ req[p].name = req[q].name
    /\ resp[p].status = 201
    /\ resp[q].kind = "IntegrityError"
    /\ QueryByName(schemas, req[p].name) # {}

\* C2: a writer that loses a race for a name is answered DuplicateName (400),
\* never with the unhandled failure of the backend's unique index.
C2_LoserGetsDuplicateName ==
  \A p \in Procs :
    req[p].op \in NameWriters => resp[p].kind # "IntegrityError"

\* C3: a request that ends in 400 or 404 has written nothing: the step that
\* raises the error leaves both tables unchanged, the handler has not reached
\* its commit, and the tables change in commit steps only.
C3_ErrorsWriteNothing ==
  [][/\ \A p \in Procs :
          (Finishes(p) /\ resp'[p].status \in {400, 404}) =>
            /\ UNCHANGED store
            /\ pc[p] \notin {"commit", "refresh"}
     /\ store' # store => \E p \in Procs : pc[p] = "commit" /\ pc'[p] # "commit"]_vars

\* an update of a dataset supplied a new name, a new description and the uuid
\* of an existing schema with content that this schema rejects: the row is as
\* it was
C3_Witness ==
  \E p \in Procs :
    /\ pc[p] = "idle"
    /\ req[p].op = "update_dataset"
    /\ resp[p].kind = "ValidationFailed"
    /\ req[p].uuid \in DOMAIN datasets
    /\ req[p].name \notin {None, datasets[req[p].uuid].name}
    /\ req[p].description \notin {None, datasets[req[p].uuid].description}
    /\ req[p].schema_uuid \in DOMAIN schemas

\* the schema uuid a dataset update that supplies content is validated against:
\* the one the request supplies, the stored one when it supplies none
EffectiveSchemaUuid(r, row) ==
  IF r.schema_uuid # NoUuid THEN r.schema_uuid ELSE row.schema_uuid

\* the schema lookup and validation of a dataset update goes on to the commit
\* exactly when the schema s exists and accepts the supplied content
ValidationDecidedBy(p, s) ==
  (pc[p] = "q_schema" /\ req[p].op = "update_dataset" /\ pc'[p] # "q_schema") =>
    (pc'[p] = "commit" <=>
       /\ s \in DOMAIN schemas
       /\ validate(json_loads(req[p].content), schemas[s].schema_content) = "ok")

\* C4 as stated: the content of a dataset update is validated against the
\* schema of the schema_uuid stored on the row before the update.
C4_ValidatedAgainstStoredSchema ==
  [][\A p \in Procs :
       ValidationDecidedBy(p, datasets[req[p].uuid].schema_uuid)]_vars

\* C4 amended: the content of a dataset update is validated against the
\* schema of the schema_uuid the request supplies, and against the one the
\* row had when the handler loaded it only when the request supplies none.
C4_ValidatedAgainstAssignedSchema ==
  [][\A p \in Procs :
       ValidationDecidedBy(p, EffectiveSchemaUuid(req[p], loc[p].loaded))]_vars

\* an update with a new schema uuid and content passed validation although the
\* schema of the stored uuid rejects the content
C4_Witness ==
  \E p \in Procs :
    /\ pc[p] = "commit"
    /\ req[p].op = "update_dataset"
    /\ req[p].content # None
    /\ req[p].schema_uuid \notin {NoUuid, loc[p].loaded.schema_uuid}
    /\ loc[p].loaded.schema_uuid \in DOMAIN schemas
    /\ validate(loc[p].obj.dataset_content,
                schemas[loc[p].loaded.schema_uuid].schema_content) # "ok"

\* C5: a dataset update that supplies a schema uuid no schema has does not
\* succeed, with or without content.
C5_UnknownSchemaRejected ==
  \A p \in Procs :
    (/\ pc[p] = "idle"
     /\ req[p].op = "update_dataset"
     /\ req[p].schema_uuid # NoUuid
     /\ req[p].schema_uuid \notin DOMAIN schemas) => resp[p].status # 200

\* C6 as stated, for the writes that supply no schema uuid: when a create or
\* an update of a dataset commits, the content of the row validates against
\* the content its schema has at that moment.
C6_ValidAtEveryWrite ==
  [][\A p \in Procs :
       (/\ Commits(p)
        /\ datasets' # datasets
        /\ req[p].op \in {"add_dataset", "update_dataset"}
        /\ req[p].op = "update_dataset" => req[p].schema_uuid = NoUuid) =>
         LET d == datasets'[loc[p].uuid]
         IN  /\ d.schema_uuid \in DOMAIN schemas
             /\ validate(d.dataset_content,
                         schemas[d.schema_uuid].schema_content) = "ok"]_vars

\* C6 amended: dataset content is written only by the commit of a create or
\* of an update that supplies content, and the content written validates
\* against the schema record the handler read for the schema uuid it writes.
C6_ValidAtContentWrite ==
  [][/\ \A p \in Procs :
          CommitsContent(p) =>
            LET d == datasets'[loc[p].uuid]
            IN  /\ loc[p].schema_record # NoRow
                /\ loc[p].schema_record.schema_uuid = d.schema_uuid
                /\ d.dataset_content = json_loads(req[p].content)
                /\ validate(d.dataset_content,
                            loc[p].schema_record.schema_content) = "ok"
     /\ \A u \in DOMAIN datasets' :
          (u \notin DOMAIN datasets
             \/ datasets'[u].dataset_content # datasets[u].dataset_content) =>
            \E p \in Procs : CommitsContent(p) /\ loc[p].uuid = u]_vars

\* an update has just committed new content for an existing dataset
C6_Witness ==
  \E p \in Procs :
    /\ pc[p] = "refresh"
    /\ req[p].op = "update_dataset"
    /\ req[p].content # None
    /\ loc[p].uuid \in DOMAIN datasets
    /\ datasets[loc[p].uuid].dataset_content = json_loads(req[p].content)
    /\ datasets[loc[p].uuid].dataset_content # loc[p].loaded.dataset_content

\* C7: a dataset update that supplies the uuid of an existing schema and no
\* content does not look the schema up or validate: it is never refused for
\* the content, its commit stores the new schema uuid and leaves the content as
\* it is, and it is answered 200.
C7_NoRevalidation ==
  [][\A p \in Procs :
       (/\ req'[p].op = "update_dataset"
        /\ req'[p].content = None
        /\ req'[p].schema_uuid \in DOMAIN schemas) =>
         /\ pc'[p] # "q_schema"
         /\ Finishes(p) =>
              resp'[p].kind \in {"ok", "NotFound", "DuplicateName", "IntegrityError",
                                 "DataError", "StaleDataError", "InvalidRequestError"}
         /\ Commits(p) =>
              /\ datasets'[loc[p].uuid].schema_uuid = req[p].schema_uuid
              /\ datasets'[loc[p].uuid].dataset_content
                   = datasets[loc[p].uuid].dataset_content
         /\ (pc[p] = "refresh" /\ Finishes(p) /\ loc[p].uuid \in DOMAIN datasets) =>
              resp'[p].status = 200]_vars

\* such an update succeeded and the stored content does not conform to the
\* schema the row now references
C7_Witness ==
  \E p \in Procs :
    /\ pc[p] = "idle"
    /\ req[p].op = "update_dataset"
    /\ req[p].content = None
    /\ resp[p].status = 200
    /\ req[p].uuid \in DOMAIN datasets
    /\ req[p].schema_uuid \in DOMAIN schemas
    /\ datasets[req[p].uuid].schema_uuid = req[p].schema_uuid
    /\ validate(datasets[req[p].uuid].dataset_content,
                schemas[req[p].schema_uuid].schema_content) = "ValidationError"

\* C8: when a create of a dataset, or an update that supplies content,
\* commits, the schema the row references exists.
C8_SchemaExistsAtCommit ==
  [][\A p \in Procs :
       CommitsContent(p) =>
         datasets'[loc[p].uuid].schema_uuid \in DOMAIN schemas]_vars

\* C9: when a create of a dataset, or an update that supplies content,
\* commits, the content validates against the content the referenced schema
\* has at that moment.
C9_ValidAgainstSchemaAtCommit ==
  [][\A p \in Procs :
       (CommitsContent(p)
          /\ datasets'[loc[p].uuid].schema_uuid \in DOMAIN schemas) =>
         validate(datasets'[loc[p].uuid].dataset_content,
                  schemas[datasets'[loc[p].uuid].schema_uuid].schema_content) = "ok"]_vars

\* C10: the content of every stored schema passes check_schema.
C10_StoredSchemasLegal ==
  \A u \in DOMAIN schemas : check_schema(schemas[u].schema_content)

\* an update of a stored schema with a document that parses and is not a
\* legal schema was refused
C10_Witness ==
  \E p \in Procs :
    /\ pc[p] = "idle"
    /\ req[p].op = "update_schema"
    /\ req[p].uuid \in DOMAIN schemas
    /\ req[p].content # None
    /\ json_loads(req[p].content) # JSONDecodeError
    /\ ~check_schema(json_loads(req[p].content))
    /\ resp[p].kind = "SchemaInvalid"

\* what the create of a dataset is to answer when the name is free and the
\* content parses: decided by the schema of the given uuid alone
CreateDatasetOutcome(r) ==
  IF r.schema_uuid \notin DOMAIN schemas THEN "SchemaNotFound"
  ELSE IF validate(json_loads(r.content), schemas[r.schema_uuid].schema_content) # "ok"
    THEN "ValidationFailed"
  ELSE "ok"

\* C11: a create of a dataset with a name no dataset has and content that
\* parses is answered 201, with exactly one new row under a fresh uuid, when
\* the schema of the given uuid exists and accepts the content; otherwise it
\* is answered SchemaNotFound or ValidationFailed and no row is added.
C11_CreateDatasetIffSchemaAccepts ==
  [][\A p \in Procs :
       /\ (/\ Finishes(p)
           /\ req'[p].op = "add_dataset"
           /\ json_loads(req'[p].content) # JSONDecodeError
           /\ QueryOtherByName(datasets, req'[p].name, loc[p].uuid) = {}) =>
            /\ resp'[p].kind = CreateDatasetOutcome(req'[p])
            /\ resp'[p].kind = "ok" =>
                 /\ resp'[p].status = 201
                 /\ loc[p].uuid \in DOMAIN datasets'
                 /\ resp'[p].body.dataset_uuid = loc[p].uuid
            /\ resp'[p].kind # "ok" =>
                 /\ pc[p] \notin {"commit", "refresh"}
                 /\ datasets' = datasets
       /\ (Commits(p) /\ req[p].op = "add_dataset") =>
            /\ loc[p].uuid \notin DOMAIN datasets \cup DOMAIN schemas
            /\ DOMAIN datasets' = DOMAIN datasets \cup {loc[p].uuid}
            /\ \A u \in DOMAIN datasets : datasets'[u] = datasets[u]]_vars

\* what the create of a schema is to answer when the name is free
CreateSchemaOutcome(r) ==
  IF json_loads(r.content) = JSONDecodeError THEN "MalformedJSON"
  ELSE IF ~check_schema(json_loads(r.content)) THEN "SchemaInvalid"
  ELSE "ok"

\* C12: a create of a schema with a name no schema has is answered
\* MalformedJSON when the content does not parse, SchemaInvalid when it parses
\* and is not a legal schema document, in both cases without a new row;
\* otherwise it is answered 201 and exactly one row is added.
C12_CreateSchemaOutcome ==
  [][\A p \in Procs :
       /\ (/\ Finishes(p)
           /\ req'[p].op = "add_schema"
           /\ QueryOtherByName(schemas, req'[p].name, loc[p].uuid) = {}) =>
            /\ resp'[p].kind = CreateSchemaOutcome(req'[p])
            /\ resp'[p].kind = "ok" =>
                 /\ resp'[p].status = 201
                 /\ loc[p].uuid \in DOMAIN schemas'
                 /\ resp'[p].body.schema_uuid = loc[p].uuid
            /\ resp'[p].kind # "ok" =>
                 /\ pc[p] \notin {"commit", "refresh"}
                 /\ schemas' = schemas
       /\ (Commits(p) /\ req[p].op = "add_schema") =>
            /\ loc[p].uuid \notin DOMAIN datasets \cup DOMAIN schemas
            /\ DOMAIN schemas' = DOMAIN schemas \cup {loc[p].uuid}
            /\ \A u \in DOMAIN schemas : schemas'[u] = schemas[u]]_vars

\* the table an update request addresses
UpdatedTable(r) == IF r.op = "update_schema" THEN schemas ELSE datasets

\* the update request r supplies a name and nothing else
NameOnly(r) ==
  /\ r.op \in {"update_schema", "update_dataset"}
  /\ r.name # None
  /\ r.description = None /\ r.content = None /\ r.schema_uuid = NoUuid

\* C13: an update of an existing schema that supplies a name, whatever
\* string it is, which another schema has is answered DuplicateName and does
\* not commit, so the name of the updated schema stays; the same for datasets.
C13_UpdateToTakenNameIsDuplicateName ==
  [][\A p \in Procs :
       /\ (/\ Finishes(p)
           /\ NameOnly(req'[p])
           /\ req'[p].uuid \in DOMAIN UpdatedTable(req'[p])
           /\ QueryOtherByName(UpdatedTable(req'[p]), req'[p].name, req'[p].uuid) # {}) =>
            /\ resp'[p].kind = "DuplicateName"
            /\ store' = store
       /\ (/\ Commits(p)
           /\ NameOnly(req[p])
           /\ QueryOtherByName(UpdatedTable(req[p]), req[p].name, req[p].uuid) # {}) =>
            store' = store]_vars

\* the fields an update supplies besides the name are valid: a schema content
\* parses and is a legal schema document; a dataset schema uuid is that of a
\* schema, a dataset content parses and the schema it is validated against
\* exists and accepts it
OtherFieldsValid(r) ==
  IF r.op = "update_schema"
    THEN r.content = None \/ CreateSchemaOutcome(r) = "ok"
  ELSE /\ r.schema_uuid = NoUuid \/ r.schema_uuid \in DOMAIN schemas
       /\ \/ r.content = None
          \/ /\ json_loads(r.content) # JSONDecodeError
             /\ LET e == EffectiveSchemaUuid(r, datasets[r.uuid])
                IN  /\ e \in DOMAIN schemas
                    /\ validate(json_loads(r.content), schemas[e].schema_content) = "ok"

\* C14: an update of a schema or a dataset that supplies the name the record
\* has is never answered DuplicateName, and is answered 200 when the other
\* fields it supplies are valid.
C14_OwnNameNeverDuplicate ==
  [][\A p \in Procs :
       (/\ Finishes(p)
        /\ req'[p].op \in {"update_schema", "update_dataset"}
        /\ req'[p].uuid \in DOMAIN UpdatedTable(req'[p])
        /\ req'[p].name = UpdatedTable(req'[p])[req'[p].uuid].name) =>
         /\ resp'[p].kind # "DuplicateName"
         /\ OtherFieldsValid(req'[p]) => resp'[p].status = 200]_vars

\* the step is the first statement of a request of p (one instance)
Begins(p) == pc[p] = "idle" /\ budget' # budget

\* the datasets that reference the schema uuid
Referencing(uuid) == {d \in DOMAIN datasets : datasets[d].schema_uuid = uuid}

\* C15: a delete of a schema that datasets reference is not refused, is
\* answered 200 and removes the schema, and leaves the table of datasets as it
\* was: every dataset is still there with the same schema_uuid, name,
\* description and content.
C15_DeleteSchemaLeavesDatasets ==
  [][\A p \in Procs :
       /\ (/\ Begins(p)
           /\ req'[p].op = "remove_schema"
           /\ req'[p].uuid \in DOMAIN schemas
           /\ Referencing(req'[p].uuid) # {}) =>
            pc'[p] = "commit" /\ store' = store
       /\ (pc[p] = "commit" /\ req[p].op = "remove_schema" /\ pc'[p] # "commit") =>
            /\ resp'[p].status = 200
            /\ loc[p].uuid \notin DOMAIN schemas'
            /\ datasets' = datasets]_vars

\* a schema was deleted and a dataset still references it
C15_Witness ==
  \E p \in Procs :
    /\ pc[p] = "idle"
    /\ req[p].op = "remove_schema"
    /\ resp[p].status = 200
    /\ req[p].uuid \notin DOMAIN schemas
    /\ Referencing(req[p].uuid) # {}

\* does the update request r supply the column f
Supplied(r, f) ==
  CASE f = "name" -> r.name # None
    [] f = "description" -> r.description # None
    [] f = "schema_uuid" -> r.schema_uuid # NoUuid
    [] f \in {"schema_content", "dataset_content"} -> r.content # None
    [] OTHER -> FALSE

\* the value the update request r supplies for the column f
SuppliedValue(r, f) ==
  CASE f = "name" -> r.name
    [] f = "description" -> r.description
    [] f = "schema_uuid" -> r.schema_uuid
    [] f \in {"schema_content", "dataset_content"} -> json_loads(r.content)

\* C16: the commit of an update of a schema or a dataset gives the supplied
\* columns their supplied values and leaves every other column of the row,
\* created_at among them, as it was; the row keeps its uuid, no row is added
\* or removed, and no other row of either table changes.  The response that
\* follows is the row as stored.
C16_UpdateChangesOnlySupplied ==
  [][\A p \in Procs :
       /\ (Commits(p) /\ req[p].op \in {"update_schema", "update_dataset"}) =>
            LET u == req[p].uuid
                old == UpdatedTable(req[p])
                new == UpdatedTable(req[p])'
            IN  /\ DOMAIN schemas' = DOMAIN schemas
                /\ DOMAIN datasets' = DOMAIN datasets
                /\ \A v \in DOMAIN schemas \ {u} : schemas'[v] = schemas[v]
                /\ \A v \in DOMAIN datasets \ {u} : datasets'[v] = datasets[v]
                /\ \A f \in DOMAIN old[u] :
                     new[u][f] = IF Supplied(req[p], f) THEN SuppliedValue(req[p], f)
                                 ELSE old[u][f]
       /\ (/\ pc[p] = "refresh" /\ Finishes(p)
           /\ req[p].op \in {"update_schema", "update_dataset"}) =>
            /\ store' = store
            /\ resp'[p].status = 200
            /\ resp'[p].body =
                 IF req[p].op = "update_schema"
                   THEN json_schema_db_to_response(req[p].uuid, schemas[req[p].uuid])
                   ELSE json_dataset_db_to_response(req[p].uuid, datasets[req[p].uuid])]_vars

\* an update that supplied only a description has committed: the row has the
\* new description and the name and content it had
C16_Witness ==
  \E p \in Procs :
    /\ pc[p] = "refresh"
    /\ req[p].op = "update_schema"
    /\ req[p].name = None /\ req[p].content = None
    /\ req[p].description \notin {None, loc[p].loaded.description}
    /\ schemas[req[p].uuid].description = req[p].description
    /\ schemas[req[p].uuid].name = loc[p].loaded.name
    /\ schemas[req[p].uuid].schema_content = loc[p].loaded.schema_content

\* the update request r, for an existing record, supplies no field
EmptyUpdate(r) ==
  /\ r.op \in {"update_schema", "update_dataset"}
  /\ r.uuid \in DOMAIN UpdatedTable(r)
  /\ r.name = None /\ r.description = None
  /\ r.content = None /\ r.schema_uuid = NoUuid

\* C17: an update of an existing schema or dataset that supplies no field
\* goes through its handler without changing either table, and is answered
\* 200 with the record as the handler loaded it.
C17_EmptyUpdateWritesNothing ==
  [][\A p \in Procs :
       (EmptyUpdate(req'[p]) /\ (Begins(p) \/ pc[p] # "idle")) =>
         /\ store' = store
         /\ Begins(p) => pc'[p] = "commit"
         /\ pc[p] = "commit" => pc'[p] = "refresh"
         /\ pc[p] = "refresh" =>
              /\ resp'[p].status = 200
              /\ resp'[p].body =
                   IF req[p].op = "update_schema"
                     THEN json_schema_db_to_response(req[p].uuid, loc[p].loaded)
                     ELSE json_dataset_db_to_response(req[p].uuid, loc[p].loaded)]_vars

\* an update of a dataset that supplied no field was answered 200
C17_Witness ==
  \E p \in Procs :
    /\ pc[p] = "idle"
    /\ req[p].op = "update_dataset"
    /\ EmptyUpdate(req[p])
    /\ resp[p].status = 200
    /\ resp[p].body = json_dataset_db_to_response(req[p].uuid, datasets[req[p].uuid])

\* C18: a create of a schema stores the parsed content with the submitted
\* name and description; a stored schema changes or disappears only by the
\* commit of an update or a delete of that schema; and a read by uuid answers
\* the stored name and description and a content text that parses to the
\* stored value.  So a read of the uuid a create returned, with no update or
\* delete of that record in between, yields the submitted name and description
\* and content equal as a JSON value to the submitted document; in particular
\* when the read follows the create directly.
C18_CreateThenReadRoundTrip ==
  [][\A p \in Procs :
       /\ (Commits(p) /\ req[p].op = "add_schema") =>
            /\ schemas'[loc[p].uuid].name = req[p].name
            /\ schemas'[loc[p].uuid].description = req[p].description
            /\ schemas'[loc[p].uuid].schema_content = json_loads(req[p].content)
       /\ (pc[p] = "refresh" /\ Finishes(p) /\ req[p].op = "add_schema") =>
            /\ resp'[p].status = 201
            /\ resp'[p].body.schema_uuid = loc[p].uuid
       /\ \A u \in DOMAIN schemas :
            (u \notin DOMAIN schemas' \/ schemas'[u] # schemas[u]) =>
              \E q \in Procs : /\ pc[q] = "commit"
                               /\ req[q].op \in {"update_schema", "remove_schema"}
                               /\ req[q].uuid = u
       /\ (/\ Begins(p)
           /\ req'[p].op = "get_schema_by_uuid"
           /\ req'[p].uuid \in DOMAIN schemas) =>
            /\ resp'[p].status = 200
            /\ resp'[p].body.schema_uuid = req'[p].uuid
            /\ resp'[p].body.name = schemas[req'[p].uuid].name
            /\ resp'[p].body.description = schemas[req'[p].uuid].description
            /\ json_loads(resp'[p].body.schema_content)
                 = schemas[req'[p].uuid].schema_content
       /\ (/\ Begins(p)
           /\ req[p].op = "add_schema" /\ resp[p].status = 201
           /\ req'[p].op = "get_schema_by_uuid"
           /\ req'[p].uuid = resp[p].body.schema_uuid) =>
            /\ resp'[p].status = 200
            /\ resp'[p].body.name = req[p].name
            /\ resp'[p].body.description = req[p].description
            /\ json_loads(resp'[p].body.schema_content) = json_loads(req[p].content)]_vars

\* a schema created with a description and the document "{ }" was read by
\* uuid: the content text of the answer is "{}", which no request submitted
C18_Witness ==
  \E p \in Procs :
    /\ pc[p] = "idle"
    /\ req[p].op = "get_schema_by_uuid"
    /\ resp[p].status = 200
    /\ resp[p].body.description = "d"
    /\ resp[p].body.schema_content = TxtEmpty
    /\ TxtEmpty \notin ReadInputs.schema_texts
    /\ json_loads(TxtEmptySp) = json_loads(resp[p].body.schema_content)

\* the table a delete or a read request addresses
AddressedTable(r) ==
  IF r.op \in {"remove_schema", "get_schema_by_uuid", "get_schema_by_name"}
    THEN schemas ELSE datasets

Deletes == {"remove_schema", "remove_dataset"}

\* C19: a delete of a uuid no record has is answered NotFound and changes
\* nothing.  A delete of an existing record is answered 200 and removes that
\* row and no other, after which no row has its uuid or its name; a uuid
\* enters a table only by the commit of a create, under a uuid not issued
\* before; and a read by uuid, a read by name and a delete are answered
\* NotFound when no row matches.  So after the delete a read by that uuid, a
\* read by that name and a second delete of that uuid are answered NotFound.
C19_DeleteRemovesExactlyThatRecord ==
  [][\A p \in Procs :
       /\ (/\ Begins(p)
           /\ req'[p].op \in Deletes \cup {"get_schema_by_uuid", "get_dataset_by_uuid"}
           /\ req'[p].uuid \notin DOMAIN AddressedTable(req'[p])) =>
            /\ resp'[p].status = 404 /\ resp'[p].kind = "NotFound"
            /\ pc'[p] = "idle"
            /\ store' = store
       /\ (/\ Begins(p)
           /\ req'[p].op \in {"get_schema_by_name", "get_dataset_by_name"}
           /\ QueryByName(AddressedTable(req'[p]), req'[p].name) = {}) =>
            /\ resp'[p].status = 404 /\ resp'[p].kind = "NotFound"
            /\ store' = store
       /\ (/\ Begins(p)
           /\ req'[p].op \in Deletes
           /\ req'[p].uuid \in DOMAIN AddressedTable(req'[p])) =>
            pc'[p] = "commit" /\ store' = store
       /\ (pc[p] = "commit" /\ req[p].op \in Deletes) =>
            LET u == req[p].uuid
                old == AddressedTable(req[p])
                new == AddressedTable(req[p])'
            IN  /\ resp'[p].status = 200
                /\ DOMAIN new = DOMAIN old \ {u}
                /\ \A v \in DOMAIN new : new[v] = old[v]
                /\ QueryByName(new, old[u].name) = {}
                /\ req[p].op = "remove_schema" => datasets' = datasets
                /\ req[p].op = "remove_dataset" => schemas' = schemas
       /\ (/\ Begins(p) /\ pc'[p] = "commit"
           /\ req'[p].op \in {"add_schema", "add_dataset"}) =>
            loc'[p].uuid \notin IssuedUuids
       /\ \A u \in (DOMAIN schemas' \ DOMAIN schemas) \cup (DOMAIN datasets' \ DOMAIN datasets) :
            \E q \in Procs : /\ Commits(q) /\ loc[q].uuid = u
                             /\ req[q].op \in {"add_schema", "add_dataset"}
       /\ (/\ Begins(p)
           /\ req[p].op \in Deletes /\ resp[p].status = 200
           /\ req'[p].op \in IF req[p].op = "remove_schema"
                                THEN {"remove_schema", "get_schema_by_uuid"}
                                ELSE {"remove_dataset", "get_dataset_by_uuid"}
           /\ req'[p].uuid = req[p].uuid) =>
            resp'[p].kind = "NotFound"]_vars

\* a schema was created and deleted, and a second delete of its uuid was
\* answered NotFound
C19_Witness ==
  \E p \in Procs :
    /\ pc[p] = "idle"
    /\ req[p].op = "remove_schema"
    /\ resp[p].kind = "NotFound"
    /\ req[p].uuid \in IssuedUuids
    /\ req[p].uuid \notin DOMAIN schemas \cup DOMAIN datasets
    /\ datasets = <<>>

SchemaMutations == {"update_schema", "remove_schema"}

DatasetMutations == {"update_dataset", "remove_dataset"}

\* the finished requests of p and q are mutations of the same record
SameRecord(p, q) ==
  /\ p # q
  /\ pc[p] = "idle" /\ pc[q] = "idle"
  /\ \/ req[p].op \in SchemaMutations /\ req[q].op \in SchemaMutations
     \/ req[p].op \in DatasetMutations /\ req[q].op \in DatasetMutations
  /\ req[p].uuid = req[q].uuid

\* C20: the answers of two updates or deletes of the same record by two
\* instances are those of the two requests served one after the other.  In
\* either order each request is answered 200, 400 or 404, never with a failure
\* of the session whose row vanished, and of two deletes of one uuid the
\* second is answered NotFound.
C20_SameIdOpsSerializable ==
  \A p, q \in Procs :
    SameRecord(p, q) =>
      /\ resp[p].kind \notin {"StaleDataError", "InvalidRequestError"}
      /\ (req[p].op \in Deletes /\ req[q].op \in Deletes) =>
           ~(resp[p].status = 200 /\ resp[q].status = 200)

\* some row of the table has the name
NameTaken(rows, name) == \E u \in DOMAIN rows : rows[u].name = name

\* the first failure of a create of a schema in the order DuplicateName,
\* MalformedJSON, SchemaInvalid
FirstCreateSchemaError(r) ==
  IF NameTaken(schemas, r.name) THEN "DuplicateName"
  ELSE IF json_loads(r.content) = JSONDecodeError THEN "MalformedJSON"
  ELSE IF ~check_schema(json_loads(r.content)) THEN "SchemaInvalid"
  ELSE "ok"

\* the first failure of a create of a dataset in the order DuplicateName,
\* SchemaNotFound, MalformedJSON, ValidationFailed
FirstCreateDatasetError(r) ==
  IF NameTaken(datasets, r.name) THEN "DuplicateName"
  ELSE IF r.schema_uuid \notin DOMAIN schemas THEN "SchemaNotFound"
  ELSE IF json_loads(r.content) = JSONDecodeError THEN "MalformedJSON"
  ELSE IF validate(json_loads(r.content), schemas[r.schema_uuid].schema_content) # "ok"
    THEN "ValidationFailed"
  ELSE "ok"

FirstCreateError(r) ==
  IF r.op = "add_schema" THEN FirstCreateSchemaError(r) ELSE FirstCreateDatasetError(r)

\* C21: a create that is refused before its commit is answered with the first
\* failure in the order DuplicateName, MalformedJSON, SchemaInvalid for a
\* schema and DuplicateName, SchemaNotFound, MalformedJSON, ValidationFailed
\* for a dataset, and a create reaches its commit only when none holds.
C21_CreateReportsFirstFailure ==
  [][\A p \in Procs :
       (/\ req'[p].op \in {"add_schema", "add_dataset"}
        /\ Begins(p) \/ pc[p] = "q_schema") =>
         /\ Finishes(p) => resp'[p].kind = FirstCreateError(req'[p])
         /\ pc'[p] = "commit" => FirstCreateError(req'[p]) = "ok"
         /\ FirstCreateError(req'[p]) # "ok" => pc'[p] \in {"idle", "q_schema"}]_vars

\* a create of a dataset with a taken name, the uuid of no schema and content
\* that does not parse was answered DuplicateName
C21_Witness ==
  \E p \in Procs :
    /\ pc[p] = "idle"
    /\ req[p].op = "add_dataset"
    /\ resp[p].kind = "DuplicateName"
    /\ NameTaken(datasets, req[p].name)
    /\ req[p].schema_uuid \notin DOMAIN schemas
    /\ json_loads(req[p].content) = JSONDecodeError

Creates == {"add_schema", "add_dataset"}

\* C22: every answer carries the status of its outcome: 201 for a create
\* that succeeded, 200 for a read, an update or a delete that succeeded, 400
\* for MalformedJSON, SchemaInvalid, ValidationFailed and DuplicateName, 404
\* for NotFound and SchemaNotFound.
C22_StatusOfOutcome ==
  \A p \in Procs :
    /\ resp[p].kind = "ok" =>
         resp[p].status = IF req[p].op \in Creates THEN 201 ELSE 200
    /\ resp[p].kind \in {"MalformedJSON", "SchemaInvalid", "ValidationFailed",
                          "DuplicateName"} => resp[p].status = 400
    /\ resp[p].kind \in {"NotFound", "SchemaNotFound"} => resp[p].status = 404

\* an update of a dataset with content was refused for its schema: 404
C22_Witness ==
  \E p \in Procs :
    /\ pc[p] = "idle"
    /\ req[p].op = "update_dataset"
    /\ req[p].content # None
    /\ resp[p].kind = "SchemaNotFound"
    /\ resp[p].status = 404

\* str contains q as a substring, without regard to case
ContainsCI(str, q) ==
  \E j \in 1..(Len(str) + 1) :
    /\ j + Len(q) - 1 <= Len(str)
    /\ \A i \in 1..Len(q) : lower(Char(q, i)) = lower(Char(str, j + i - 1))

\* the content has a top-level key equal to q, or a key at any depth reached
\* through object values that contains q without regard to case
HasKeyLike(d, q) ==
  \/ d.t = "object" /\ q \in Keys(d)
  \/ \E k \in json_keys(d) : ContainsCI(k, q)

\* the uuids of the records a search answered
AnsweredSchemas(body) == {body[i].schema_uuid : i \in DOMAIN body}

AnsweredDatasets(body) == {body[i].dataset_uuid : i \in DOMAIN body}

\* C23: a search by key answers exactly the records whose content has a
\* top-level key equal to the query, or at any depth reached through object
\* values a key that contains the query without regard to case.
C23_KeySearchExact ==
  \A p \in Procs :
    /\ (req[p].op = "search_schemas_by_key" /\ resp[p].status = 200) =>
         AnsweredSchemas(resp[p].body)
           = {u \in DOMAIN schemas : HasKeyLike(schemas[u].schema_content, req[p].q)}
    /\ (req[p].op = "search_datasets_by_key" /\ resp[p].status = 200) =>
         AnsweredDatasets(resp[p].body)
           = {u \in DOMAIN datasets : HasKeyLike(datasets[u].dataset_content, req[p].q)}

\* the name, the description or the text of the content contains q
HasTextLike(row, content, q) ==
  \/ ContainsCI(row.name, q)
  \/ row.description # None /\ ContainsCI(row.description, q)
  \/ ContainsCI(jsonb_text(row[content]), q)

\* C24: a search by text answers exactly the records whose name,
\* description or serialized content contains the query as a literal
\* substring without regard to case, whatever characters the query has.
C24_TextSearchLiteral ==
  \A p \in Procs :
    /\ (req[p].op = "search_schemas" /\ resp[p].status = 200) =>
         AnsweredSchemas(resp[p].body)
           = {u \in DOMAIN schemas : HasTextLike(schemas[u], "schema_content", req[p].q)}
    /\ (req[p].op = "search_datasets" /\ resp[p].status = 200) =>
         AnsweredDatasets(resp[p].body)
           = {u \in DOMAIN datasets : HasTextLike(datasets[u], "dataset_content", req[p].q)}

\* C25: every request an instance has taken up is answered, with a success
\* or an error response, also while the other instance writes the same name
\* or the same record.
C25_EveryRequestReturns ==
  \A p \in ConcProcs : (pc[p] # "idle") ~> (pc[p] = "idle" /\ resp[p] # NoResp)

\* both instances are committing a create of the same name, or a write of
\* the same record, at once
C25_Witness ==
  /\ pc[1] # "idle" /\ pc[2] # "idle"
  /\ loc[1].obj # NoRow /\ loc[2].obj # NoRow
  /\ \/ loc[1].obj.name = loc[2].obj.name
     \/ loc[1].uuid = loc[2].uuid

\* the dataset row the update handler of p loads when it is entered
LoadedDataset(p) ==
  IF pc[p] = "idle" THEN datasets[req'[p].uuid] ELSE loc[p].loaded

\* the step ends an update of an existing dataset whose schema was deleted
EndsUpdateOfOrphan(p) ==
  /\ Finishes(p)
  /\ req'[p].op = "update_dataset"
  /\ pc[p] = "idle" => req'[p].uuid \in DOMAIN datasets
  /\ LoadedDataset(p).schema_uuid \in IssuedUuids \ DOMAIN schemas

\* the request supplies content that parses
ParseableContent(r) == r.content # None /\ json_loads(r.content) # JSONDecodeError

\* no other dataset holds the name the request supplies
NameFree(r) ==
  r.name = None \/ QueryOtherByName(datasets, r.name, r.uuid) = {}

NameTable(r) ==
  IF r.op \in {"add_schema", "update_schema"} THEN schemas ELSE datasets

\* C27: names are unique per kind.  A create or an update is refused for
\* its name only when another record of the same kind holds the name; a
\* schema of that name never refuses a dataset, nor a dataset a schema.
C27_NamesPerKind ==
  [][\A p \in Procs :
       (/\ Finishes(p)
        /\ req'[p].op \in NameWriters
        /\ resp'[p].kind \in {"DuplicateName", "IntegrityError"}) =>
         QueryOtherByName(NameTable(req'[p]), req'[p].name, req'[p].uuid) # {}]_vars

\* a dataset was created under the name of a live schema, or a schema under
\* the name of a live dataset
C27_Witness ==
  \E p \in Procs :
    /\ pc[p] = "idle"
    /\ resp[p].status = 201
    /\ \/ req[p].op = "add_dataset" /\ NameTaken(schemas, req[p].name)
       \/ req[p].op = "add_schema" /\ NameTaken(datasets, req[p].name)

SchemaOps ==
  {"add_schema", "update_schema", "remove_schema", "get_schema_by_uuid",
   "get_schema_by_name"}

\* of the two tables s and d, the one the request r is about
KindTable(r, s, d) == IF r.op \in SchemaOps THEN s ELSE d

\* the uuid in the body of the answer to a read
AnsweredUuid(r, body) ==
  IF r.op \in SchemaOps THEN body.schema_uuid ELSE body.dataset_uuid

\* C28: a name is held only while a live record has it.  The commit of a
\* rename from n to m leaves no record named n and the renamed record, with
\* its uuid, as the one named m; the commit of a delete of the record named
\* n leaves no record named n; a read by name is answered NotFound exactly
\* when no live record of the kind has the name, and else with the record
\* that has it; and a create is refused for its name only when a live record
\* of the kind has it: with a name that none has, that fits the column, and
\* other fields that pass, it is answered 201.
C28_NameHeldWhileLive ==
  [][\A p \in Procs :
       /\ (/\ Commits(p)
           /\ req[p].op \in {"update_schema", "update_dataset"}
           /\ req[p].name \notin {None, loc[p].loaded.name}) =>
            LET rows == KindTable(req[p], schemas', datasets')
            IN  /\ QueryByName(rows, loc[p].loaded.name) = {}
                /\ QueryByName(rows, req[p].name) = {req[p].uuid}
       /\ (/\ pc[p] = "commit"
           /\ Finishes(p)
           /\ req[p].op \in {"remove_schema", "remove_dataset"}) =>
            /\ resp'[p].status = 200
            /\ QueryByName(KindTable(req[p], schemas', datasets'),
                           loc[p].loaded.name) = {}
       /\ (/\ Finishes(p)
           /\ req'[p].op \in {"get_schema_by_name", "get_dataset_by_name"}) =>
            LET held == QueryByName(KindTable(req'[p], schemas, datasets), req'[p].name)
            IN  IF held = {}
                  THEN resp'[p].status = 404 /\ resp'[p].kind = "NotFound"
                  ELSE /\ resp'[p].status = 200
                       /\ AnsweredUuid(req'[p], resp'[p].body) \in held
                       /\ resp'[p].body.name = req'[p].name
       /\ (/\ Finishes(p)
           /\ req'[p].op \in {"add_schema", "add_dataset"}
           /\ resp'[p].status # 201) =>
            /\ resp'[p].kind \in {"DuplicateName", "IntegrityError"} =>
                 NameTaken(KindTable(req'[p], schemas, datasets), req'[p].name)
            /\ \/ FirstCreateError(req'[p]) # "ok"
               \/ /\ resp'[p].kind = "DataError"
                  /\ \/ NameTooLong(req'[p].name)
                     \/ JsonbRejects(json_loads(req'[p].content))]_vars

\* a rename has just been committed: no record has the old name, the record
\* of the same uuid has the new one
C28_Witness ==
  \E p \in Procs :
    /\ pc[p] = "refresh"
    /\ req[p].op = "update_schema"
    /\ req[p].name \notin {None, loc[p].loaded.name}
    /\ QueryByName(schemas, loc[p].loaded.name) = {}
    /\ QueryByName(schemas, req[p].name) = {req[p].uuid}

\* the session of p holds assignments that no commit has written
PendingAssignments(p) == loc[p].obj # NoRow /\ loc[p].obj # loc[p].loaded

\* C29: the session a request opens is closed when its handler ends, with
\* a success or with any error, so every open session is closed in the end;
\* and when the handler ends with an error after it assigned fields to the
\* record it loaded, the close writes none of them.
C29_SessionClosedNothingFlushed ==
  /\ [][\A p \in ConcProcs :
          Finishes(p) =>
            /\ loc'[p] = NoLoc
            /\ (PendingAssignments(p) /\ resp'[p].status \notin {200, 201}) =>
                 store' = store]_vars
  /\ \A p \in ConcProcs : (loc[p] # NoLoc) ~> (pc[p] = "idle" /\ loc[p] = NoLoc)

\* an update of a schema assigned a new name to the loaded record and was
\* then refused for content that does not parse; the stored name is the old
\* one
C29_Witness ==
  \E p \in ConcProcs :
    /\ pc[p] = "idle"
    /\ loc[p] = NoLoc
    /\ req[p].op = "update_schema"
    /\ resp[p].kind = "MalformedJSON"
    /\ req[p].uuid \in DOMAIN schemas
    /\ req[p].name \notin {None, schemas[req[p].uuid].name}

====
